---- MODULE Spec2Model ----
(***************************************************************************)
(* Model of the notebook "Structural pattern matching for data science":   *)
(* the cell that converts the text bad_csv into a rectangular list of      *)
(* lists with a match statement, and the two cells that show that the      *)
(* order of the cases matters.                                             *)
(*                                                                         *)
(* A Python str is a sequence of one-character strings; a list is a        *)
(* sequence.  The elements of an output record are tagged: a str, an int   *)
(* or None.                                                                *)
(***************************************************************************)
EXTENDS Integers, Sequences, FiniteSets

VARIABLES bad_csv, lines, idx, values, pc, stdout

vars == <<bad_csv, lines, idx, values, pc, stdout>>

(* ------------------------------ bounds -------------------------------- *)

\* longest enumerated input text, in characters
MaxLen == 6

\* characters the enumerated input texts are built from
Chars == {"0", "1", ",", "\n"}

(* ------------------------------ values -------------------------------- *)

\* a Python str value held in a record
StrVal(t) == [kind |-> "str", s |-> t]

\* a Python int value held in a record
IntVal(k) == [kind |-> "int", n |-> k]

\* Python's None
None == [kind |-> "none"]

(* ------------------------------ inputs -------------------------------- *)

\* the notebook's bad_csv: "\n0,1,2\n1,2,3\n1,2\n0\n1\n"
BadCsv ==
    <<"\n", "0", ",", "1", ",", "2", "\n", "1", ",", "2", ",", "3", "\n",
      "1", ",", "2", "\n", "0", "\n", "1", "\n">>

\* the same text without the leading empty row
BadCsvNoLead == Tail(BadCsv)

\* all texts over Chars of length at most MaxLen
Texts == UNION {[1..n -> Chars] : n \in 0..MaxLen}

(* ------------------------------ str.split ----------------------------- *)

RECURSIVE SplitFrom(_, _, _, _)
\* scan s from position i; cur is the piece collected since the last sep
SplitFrom(s, sep, i, cur) ==
    IF i > Len(s) THEN <<cur>>
    ELSE IF s[i] = sep THEN <<cur>> \o SplitFrom(s, sep, i + 1, <<>>)
    ELSE SplitFrom(s, sep, i + 1, Append(cur, s[i]))

\* s.split(sep) that drops a trailing empty piece
splitDropTrailing(s, sep) ==
    LET r == SplitFrom(s, sep, 1, <<>>)
    IN  IF r[Len(r)] = <<>> THEN SubSeq(r, 1, Len(r) - 1) ELSE r

\* s.split(sep) for a one-character sep
split(s, sep) == SplitFrom(s, sep, 1, <<>>)

(* ------------------------------ the match statement ------------------- *)

\* case [x, y, z]: values.append([x, y, z]), wrongly reversed
CaseXYZReversed(x, y, z) == <<StrVal(z), StrVal(y), StrVal(x)>>

\* case [x, y, z]: values.append([x, y, z])
CaseXYZ(x, y, z) == <<StrVal(x), StrVal(y), StrVal(z)>>

\* case [x, y]: values.append([x, y, None]), wrongly without the None
CaseXYShort(x, y) == <<StrVal(x), StrVal(y)>>

\* case [x, y]: values.append([x, y, None]), wrongly padded in the middle
CaseXYPadMiddle(x, y) == <<StrVal(x), None, StrVal(y)>>

\* case [x, y]: values.append([x, y, None])
CaseXY(x, y) == <<StrVal(x), StrVal(y), None>>

\* case ["1"]: values.append([1, 2, 3])
CaseOne == <<IntVal(1), IntVal(2), IntVal(3)>>

\* case [x]: values.append([x, None, None]), wrongly padded once
CaseXShort(x) == <<StrVal(x), None>>

\* case [x]: values.append([x, None, None])
CaseX(x) == <<StrVal(x), None, None>>

\* the match statement with case [x] placed before case ["1"]
MatchLineGenericFirst(subject) ==
    IF Len(subject) = 3
    THEN [op |-> "append", rec |-> CaseXYZ(subject[1], subject[2], subject[3])]
    ELSE IF Len(subject) = 2
    THEN [op |-> "append", rec |-> CaseXY(subject[1], subject[2])]
    ELSE IF subject = << <<>> >>
    THEN [op |-> "continue"]
    ELSE IF Len(subject) = 1
    THEN [op |-> "append", rec |-> CaseX(subject[1])]
    ELSE IF subject = << <<"1">> >>
    THEN [op |-> "append", rec |-> CaseOne]
    ELSE [op |-> "raise"]

\* the match statement without case [""]
MatchLineNoEmpty(subject) ==
    IF Len(subject) = 3
    THEN [op |-> "append", rec |-> CaseXYZ(subject[1], subject[2], subject[3])]
    ELSE IF Len(subject) = 2
    THEN [op |-> "append", rec |-> CaseXY(subject[1], subject[2])]
    ELSE IF subject = << <<"1">> >>
    THEN [op |-> "append", rec |-> CaseOne]
    ELSE IF Len(subject) = 1
    THEN [op |-> "append", rec |-> CaseX(subject[1])]
    ELSE [op |-> "raise"]

\* outcome of the match statement on one subject (a list of tokens):
\* the first case whose pattern matches is taken, no other case is tried
MatchLine(subject) ==
    IF Len(subject) = 3
    THEN [op |-> "append", rec |-> CaseXYZ(subject[1], subject[2], subject[3])]
    ELSE IF Len(subject) = 2
    THEN [op |-> "append", rec |-> CaseXY(subject[1], subject[2])]
    ELSE IF subject = << <<>> >>
    THEN [op |-> "continue"]
    ELSE IF subject = << <<"1">> >>
    THEN [op |-> "append", rec |-> CaseOne]
    ELSE IF Len(subject) = 1
    THEN [op |-> "append", rec |-> CaseX(subject[1])]
    ELSE [op |-> "raise"]

\* cell 4 with its two cases exchanged
MatchGenericFirstExchanged(subject) ==
    IF subject = << <<"a">> >> THEN <<"a">>
    ELSE IF Len(subject) = 1 THEN <<"x">>
    ELSE <<>>

\* match subject: case [x]: print("x")  case ["a"]: print("a")
MatchGenericFirst(subject) ==
    IF Len(subject) = 1 THEN <<"x">>
    ELSE IF subject = << <<"a">> >> THEN <<"a">>
    ELSE <<>>

\* match subject: case ["a"]: print("a")  case [x]: print("x")
MatchLiteralFirst(subject) ==
    IF subject = << <<"a">> >> THEN <<"a">>
    ELSE IF Len(subject) = 1 THEN <<"x">>
    ELSE <<>>

(* ------------------------------ the notebook -------------------------- *)

\* bad_csv is assigned, values = [], and the for loop has evaluated
\* bad_csv.split("\n") and stands before its first row
Init ==
    /\ bad_csv \in Texts \cup {BadCsv, BadCsvNoLead}
    /\ lines = split(bad_csv, "\n")
    /\ idx = 1
    /\ values = <<>>
    /\ pc = "loop"
    /\ stdout = <<>>

\* the row the loop stands at, split on commas
Row == split(lines[idx], ",")

\* one iteration whose case puts its record in front
AppendLineInFront ==
    /\ pc = "loop"
    /\ idx <= Len(lines)
    /\ MatchLine(Row).op = "append"
    /\ values' = <<MatchLine(Row).rec>> \o values
    /\ idx' = idx + 1
    /\ UNCHANGED <<bad_csv, lines, pc, stdout>>

\* one iteration whose case appends a record
AppendLine ==
    /\ pc = "loop"
    /\ idx <= Len(lines)
    /\ MatchLine(Row).op = "append"
    /\ values' = Append(values, MatchLine(Row).rec)
    /\ idx' = idx + 1
    /\ UNCHANGED <<bad_csv, lines, pc, stdout>>

\* one iteration on an empty row: continue
SkipLine ==
    /\ pc = "loop"
    /\ idx <= Len(lines)
    /\ MatchLine(Row).op = "continue"
    /\ idx' = idx + 1
    /\ UNCHANGED <<bad_csv, lines, values, pc, stdout>>

\* one iteration that reaches case _ and goes on with the next row
RaiseLineSwallowed ==
    /\ pc = "loop"
    /\ idx <= Len(lines)
    /\ MatchLine(Row).op = "raise"
    /\ idx' = idx + 1
    /\ UNCHANGED <<bad_csv, lines, values, pc, stdout>>

\* one iteration that reaches case _: the exception ends the run
RaiseLine ==
    /\ pc = "loop"
    /\ idx <= Len(lines)
    /\ MatchLine(Row).op = "raise"
    /\ pc' = "raised"
    /\ UNCHANGED <<bad_csv, lines, idx, values, stdout>>

\* the loop is exhausted; the next cells run
LoopExit ==
    /\ pc = "loop"
    /\ idx > Len(lines)
    /\ pc' = "cell4"
    /\ UNCHANGED <<bad_csv, lines, idx, values, stdout>>

\* match ["a"] with the capture pattern first
Cell4 ==
    /\ pc = "cell4"
    /\ stdout' = stdout \o MatchGenericFirst(<< <<"a">> >>)
    /\ pc' = "cell5"
    /\ UNCHANGED <<bad_csv, lines, idx, values>>

\* match ["a"] with the literal pattern first
Cell5 ==
    /\ pc = "cell5"
    /\ stdout' = stdout \o MatchLiteralFirst(<< <<"a">> >>)
    /\ pc' = "done"
    /\ UNCHANGED <<bad_csv, lines, idx, values>>

Next == AppendLine \/ SkipLine \/ RaiseLine \/ LoopExit \/ Cell4 \/ Cell5

Spec == Init /\ [][Next]_vars

(* ------------------------------ properties ---------------------------- *)

\* the tokens of row k of the text
RowAt(k) == split(lines[k], ",")

\* the loop stands at a row it has not processed yet
AtRow == pc = "loop" /\ idx <= Len(lines)

\* the loop ended without an exception
Finished == pc \in {"cell4", "cell5", "done"}

\* the row processed by the last iteration
LastRow == RowAt(idx - 1)

\* the record appended last
LastRecord == values[Len(values)]

\* C1 as stated: the case _ branch is never reached, for every input text
C1_NeverRaises == pc # "raised"

\* C1 amended: splitting never yields a row of 0 tokens, a row reaches
\* case _ exactly when it has 4 or more tokens, and a text whose rows all
\* have at most 3 tokens never raises
C1_RaisesOnlyOnFourPlus ==
    /\ \A k \in 1..Len(lines) :
          /\ Len(RowAt(k)) >= 1
          /\ (MatchLine(RowAt(k)).op = "raise") <=> (Len(RowAt(k)) >= 4)
    /\ pc = "raised" => Len(Row) >= 4
    /\ (\A k \in 1..Len(lines) : Len(RowAt(k)) <= 3) => pc # "raised"

C1_Witness ==
    /\ pc = "done"
    /\ \E k \in 1..Len(lines) : Len(RowAt(k)) = 3
    /\ \E k \in 1..Len(lines) : Len(RowAt(k)) = 2
    /\ \E k \in 1..Len(lines) : RowAt(k) = << <<>> >>

\* C2: a row of exactly 3 tokens [x, y, z] appends exactly the record
\* [x, y, z], the three text tokens unchanged and in order
C2_ThreeTokens ==
    [][(AtRow /\ Len(Row) = 3) =>
          /\ values' = Append(values,
                 <<[kind |-> "str", s |-> Row[1]], [kind |-> "str", s |-> Row[2]],
                   [kind |-> "str", s |-> Row[3]]>>)
          /\ idx' = idx + 1]_vars

C2_Witness ==
    /\ idx > 1 /\ values # <<>>
    /\ \E a \in Chars : LastRow = << <<>>, <<a>>, <<>> >>
    /\ LastRecord = <<StrVal(LastRow[1]), StrVal(LastRow[2]), StrVal(LastRow[3])>>

\* C3: a row of exactly 2 tokens [x, y] appends exactly [x, y, None]
C3_TwoTokens ==
    [][(AtRow /\ Len(Row) = 2) =>
          /\ values' = Append(values,
                 <<[kind |-> "str", s |-> Row[1]], [kind |-> "str", s |-> Row[2]],
                   [kind |-> "none"]>>)
          /\ idx' = idx + 1]_vars

C3_Witness ==
    /\ idx > 1 /\ values # <<>>
    /\ LastRow = << <<>>, <<>> >>
    /\ LastRecord = <<StrVal(<<>>), StrVal(<<>>), None>>

\* C4: the row "1" appends the integers [1, 2, 3] and never
\* ["1", None, None]
C4_LiteralOne ==
    [][(AtRow /\ Row = << <<"1">> >>) =>
          /\ values' = Append(values,
                 <<[kind |-> "int", n |-> 1], [kind |-> "int", n |-> 2],
                   [kind |-> "int", n |-> 3]>>)
          /\ values' # Append(values,
                 <<[kind |-> "str", s |-> <<"1">>], [kind |-> "none"],
                   [kind |-> "none"]>>)
          /\ idx' = idx + 1]_vars

C4_Witness ==
    /\ idx > 1 /\ values # <<>>
    /\ LastRow = << <<"1">> >>
    /\ LastRecord = <<IntVal(1), IntVal(2), IntVal(3)>>

\* C5: a row of one token x, x not empty and not "1", appends
\* [x, None, None]
C5_OtherSingleToken ==
    [][(AtRow /\ Len(Row) = 1 /\ Row[1] # <<>> /\ Row[1] # <<"1">>) =>
          /\ values' = Append(values,
                 <<[kind |-> "str", s |-> Row[1]], [kind |-> "none"],
                   [kind |-> "none"]>>)
          /\ idx' = idx + 1]_vars

C5_Witness ==
    /\ idx > 1 /\ values # <<>>
    /\ LastRow = << <<"1", "1">> >>
    /\ LastRecord = <<StrVal(<<"1", "1">>), None, None>>

\* the rows of the text that are not the empty string, in text order
NonEmptyRows == SelectSeq(split(bad_csv, "\n"), LAMBDA l : l # <<>>)

\* C6: when no error is raised the output is exactly one record per
\* non-empty row, in the order of those rows in the text
C6_OrderPreserved ==
    Finished =>
        /\ Len(values) = Len(NonEmptyRows)
        /\ \A k \in 1..Len(NonEmptyRows) :
              values[k] = MatchLine(split(NonEmptyRows[k], ",")).rec

C6_Witness ==
    /\ pc = "done"
    /\ Len(lines) >= 4
    /\ lines[1] = <<>> /\ lines[3] = <<>> /\ lines[Len(lines)] = <<>>
    /\ Len(values) = 2
    /\ values[1] # values[2]

\* the output the notebook records for bad_csv
ExampleValues ==
    << <<StrVal(<<"0">>), StrVal(<<"1">>), StrVal(<<"2">>)>>,
       <<StrVal(<<"1">>), StrVal(<<"2">>), StrVal(<<"3">>)>>,
       <<StrVal(<<"1">>), StrVal(<<"2">>), None>>,
       <<StrVal(<<"0">>), None, None>>,
       <<IntVal(1), IntVal(2), IntVal(3)>> >>

\* C7: on the example text, with or without its leading empty row, no
\* error is raised and the output is the recorded one
C7_EndToEnd ==
    bad_csv \in {BadCsv, BadCsvNoLead} =>
        /\ pc # "raised"
        /\ Finished => values = ExampleValues
        /\ pc = "loop" => values = SubSeq(ExampleValues, 1, Len(values))

C7_Witness == bad_csv = BadCsv /\ pc = "done" /\ values = ExampleValues

\* C8: a row matched by none of the first five cases (0 tokens, or 4 or
\* more) raises when it is reached, emits no record, and nothing is
\* processed after it
C8_FatalError ==
    [][/\ MatchLine(<<>>).op = "raise"
       /\ (AtRow /\ Len(Row) \notin {1, 2, 3}) =>
             (pc' = "raised" /\ values' = values /\ idx' = idx)
       /\ pc = "raised" => UNCHANGED vars]_vars

C8_Witness ==
    /\ pc = "raised"
    /\ Len(Row) >= 4
    /\ idx < Len(lines)
    /\ lines[idx + 1] # <<>>
    /\ Len(values) = idx - 1

\* C9: with case [x] placed before case ["1"] the row "1" gives
\* ["1", None, None] instead of [1, 2, 3] and every other row gives what
\* the notebook's order gives; in the notebook, ["a"] matched against
\* [x] then ["a"] prints x, and against ["a"] then [x] prints a
C9_OrderMatters ==
    /\ \A k \in 1..Len(lines) :
          IF RowAt(k) = << <<"1">> >>
          THEN /\ MatchLine(RowAt(k)) =
                     [op |-> "append", rec |-> <<IntVal(1), IntVal(2), IntVal(3)>>]
               /\ MatchLineGenericFirst(RowAt(k)) =
                     [op |-> "append", rec |-> <<StrVal(<<"1">>), None, None>>]
          ELSE MatchLineGenericFirst(RowAt(k)) = MatchLine(RowAt(k))
    /\ pc = "cell5" => stdout = <<"x">>
    /\ pc = "done" => stdout = <<"x", "a">>

C9_Witness ==
    /\ pc = "done"
    /\ stdout = <<"x", "a">>
    /\ \E k \in 1..Len(lines) : RowAt(k) = << <<"1">> >>
    /\ \E k \in 1..Len(lines) : Len(RowAt(k)) = 1 /\ RowAt(k) # << <<"1">> >>

\* v is a text token, an integer or None
IsElement(v) ==
    \/ v = None
    \/ DOMAIN v = {"kind", "s"} /\ v.kind = "str" /\ DOMAIN v.s = 1..Len(v.s)
    \/ DOMAIN v = {"kind", "n"} /\ v.kind = "int" /\ v.n \in Int

\* C10: in every state every record has exactly 3 elements, each a text
\* token, an integer or None; the first is never None and the second is
\* None only if the third is
C10_Rectangular ==
    \A k \in 1..Len(values) :
        /\ Len(values[k]) = 3
        /\ \A j \in 1..3 : IsElement(values[k][j])
        /\ values[k][1] # None
        /\ values[k][2] = None => values[k][3] = None

C10_Witness ==
    /\ pc = "raised"
    /\ values # <<>>
    /\ \E k \in 1..Len(values) : values[k][2] # None /\ values[k][3] = None

====
